---- MODULE Spec2Model ----
(***************************************************************************)
(* A model of the differential test oracle of tests/__main__.py:           *)
(*   - the Noise Filter            dynamic_pop                              *)
(*   - the Diff Post-Processor     remove_from_diff                         *)
(*   - the Order Validator         validate_order                           *)
(*   - the Cache Store             API_Cache                                *)
(*   - the test pipeline           run_test and the loop of main            *)
(*   - the readiness wait          the polling loop of main                 *)
(*                                                                         *)
(* JSON documents are tagged trees:                                        *)
(*   N(n)  a number, kept in thousandths (1004 stands for 1.004)           *)
(*   S(s)  a string                                                        *)
(*   L(q)  a list, q a sequence of documents                               *)
(*   M(f)  a dict, f a function from its keys (strings) to documents       *)
(***************************************************************************)
EXTENDS Integers, Sequences, FiniteSets, TLC

VARIABLES
    \* ---- dynamic_pop applied to one document ----
    data,          \* the document handed to dynamic_pop (mutated in place)
    pops,          \* the block-list handed to dynamic_pop
    pop_pc,        \* "off" | "call" | "returned"
    \* ---- remove_from_diff applied to one change-set ----
    rd_diff,       \* the diff handed to remove_from_diff (mutated in place)
    rd_in,         \* the diff as it was at the call
    rd_pops,       \* the noise substrings handed to remove_from_diff
    rd_pc,         \* "off" | "call" | "returned" | "KeyError"
    \* ---- API_Cache: one origin URL, one record file, the runs using it ----
    now,           \* datetime.now().timestamp()
    origin,        \* the body the origin serves at the moment
    file,          \* the record file: [exists, meta, cache]
    obj,           \* per run: the API_Cache object, [meta, cache]
    cpc,           \* per run: position in __init__ / fetch / refresh
    arg_interval,  \* per run: the update_interval given to __init__
    fetch_info,    \* per run: what the current fetch saw and did
    ret,           \* per run: what the last fetch returned
    last_good,     \* the body stored by the most recent successful refresh
    \* ---- main's loop over the test cases and run_test ----
    n_tests,       \* len(test_cases)
    selected,      \* args['<test_id>'] as case numbers; empty selects all
    idx,           \* the loop's position: cases 1..idx have been visited
    rpc,           \* position in run_test
    cached_response,
    response,      \* the scraper's HTTP response
    scraper_response,
    diff,
    mismatches,    \* validate_order's result
    trace,         \* the stages of the current run_test, in execution order
    artifacts,     \* per case: the verdicts of the files written in results/
    sut_failed,    \* the cases on which the system under test failed
    \* ---- main's readiness wait ----
    retries,
    probe,         \* the outcome of the last probe
    answered,      \* how many probes got an HTTP answer
    mpc            \* "poll" | "returned" | "load_cases"

popVars   == <<data, pops, pop_pc>>
rdVars    == <<rd_diff, rd_in, rd_pops, rd_pc>>
cacheVars == <<now, origin, file, obj, cpc, arg_interval, fetch_info, ret, last_good>>
runVars   == <<n_tests, selected, idx, rpc, cached_response, response, scraper_response,
               diff, mismatches, trace, artifacts, sut_failed>>
mainVars  == <<retries, probe, answered, mpc>>
vars      == <<popVars, rdVars, cacheVars, runVars, mainVars>>

(***************************************************************************)
(* Documents                                                               *)
(***************************************************************************)
N(n) == [t |-> "n", v |-> n]
S(s) == [t |-> "s", v |-> s]
L(q) == [t |-> "l", v |-> q]
M(f) == [t |-> "m", v |-> f]
None == [t |-> "none", v |-> 0]

EmptyDict == [k \in {} |-> None]

IsStr(d)  == d.t = "s"
IsList(d) == d.t = "l"
IsDict(d) == d.t = "m"

Range(q) == { q[i] : i \in 1..Len(q) }

\* All sequences over set X of length at most n.
RECURSIVE SeqsUpTo(_, _)
SeqsUpTo(X, n) ==
    IF n = 0 THEN { <<>> }
    ELSE LET shorter == SeqsUpTo(X, n - 1)
         IN  shorter \cup { Append(q, x) : q \in { r \in shorter : Len(r) = n - 1 }, x \in X }

\* All dicts whose keys are a subset of K and whose values lie in X.
DictsOver(K, X) == UNION { [ks -> X] : ks \in SUBSET K }

(***************************************************************************)
(* dynamic_pop                                                             *)
(***************************************************************************)
\* `item in pops`: pops is a list of strings, so only a string can be a member.
InPops(item, ps) == IsStr(item) /\ item.v \in ps

RECURSIVE remove_items(_, _)
remove_items(d, ps) ==
    IF IsDict(d) THEN
        \* keys_to_remove popped, then the remaining values are recursed into
        M([ key \in (DOMAIN d.v) \ ps |-> remove_items(d.v[key], ps) ])
    ELSE IF IsList(d) THEN
        \* every item that is a member of pops is removed, the rest recursed into
        LET kept == SelectSeq(d.v, LAMBDA item : ~InPops(item, ps))
        IN  L([ i \in 1..Len(kept) |-> remove_items(kept[i], ps) ])
    ELSE d

dynamic_pop(d, ps) == remove_items(d, ps)

(***************************************************************************)
(* Change-sets.  A diff is a dict from a category to the entries DeepDiff  *)
(* reports under it, in report order; an entry is [path, old_value,        *)
(* new_value] (None where the category has no such side).  A category that *)
(* is present is never empty when DeepDiff returns it.                     *)
(***************************************************************************)
EmptyDiff == [c \in {} |-> <<>>]

\* diff == {}
IsEmptyDiff(d) == DOMAIN d = {}

Entry(p, o, n) == [path |-> p, old_value |-> o, new_value |-> n]

Paths(entries) == { entries[i].path : i \in 1..Len(entries) }

\* `check in old_new` on Python strings: check is a substring of old_new.
Contains(check, str) ==
    \E i \in 1..(Len(str) - Len(check) + 1) : SubSeq(str, i, i + Len(check) - 1) = check

\* (isinstance(old_new, str)) and check in old_new, for some check of pops
Noisy(old_new, ps) == IsStr(old_new) /\ \E check \in ps : Contains(check, old_new.v)

(***************************************************************************)
(* remove_from_diff                                                        *)
(***************************************************************************)
\* The keys appended to to_pop for one entry: one append for every value of
\* the entry (new_value, old_value) that matches; the break leaves only the
\* loop over pops.
AppendsFor(e, ps) ==
    (IF Noisy(e.new_value, ps) THEN <<e.path>> ELSE <<>>)
    \o (IF Noisy(e.old_value, ps) THEN <<e.path>> ELSE <<>>)

RECURSIVE to_pop(_, _)
to_pop(entries, ps) ==
    IF entries = <<>> THEN <<>>
    ELSE AppendsFor(Head(entries), ps) \o to_pop(Tail(entries), ps)

\* for key in to_pop: diff['values_changed'].pop(key)
\* dict.pop of a key that is no longer there raises KeyError.
RECURSIVE PopFromDict(_, _)
PopFromDict(entries, keys) ==
    IF keys = <<>> THEN [raised |-> FALSE, entries |-> entries]
    ELSE IF Head(keys) \notin Paths(entries) THEN [raised |-> TRUE, entries |-> entries]
    ELSE PopFromDict(SelectSeq(entries, LAMBDA e : e.path # Head(keys)), Tail(keys))

\* if any values are empty dicts or lists, remove them
PruneEmpty(d) == [ c \in { k \in DOMAIN d : d[k] # <<>> } |-> d[c] ]

\* The result: whether KeyError left the function, and the diff as mutated.
remove_from_diff(d, ps) ==
    IF "values_changed" \notin DOMAIN d THEN [raised |-> FALSE, diff |-> PruneEmpty(d)]
    ELSE LET r      == PopFromDict(d["values_changed"], to_pop(d["values_changed"], ps))
             popped == [d EXCEPT !["values_changed"] = r.entries]
         IN  IF r.raised THEN [raised |-> TRUE, diff |-> popped]
             ELSE [raised |-> FALSE, diff |-> PruneEmpty(popped)]

(***************************************************************************)
(* DeepDiff(t1, t2, ignore_order=True [, significant_digits=2,             *)
(* truncate_datetime='minute']), as the library documents it:              *)
(*   - dicts are compared key by key;                                      *)
(*   - with ignore_order, two lists differ only by the items one holds and *)
(*     the other does not, whatever their positions and repetitions;       *)
(*   - with significant_digits=2, numbers are compared as formatted with   *)
(*     two digits after the decimal point;                                 *)
(*   - truncate_datetime acts on datetime objects only, and a document     *)
(*     decoded from JSON holds none.                                       *)
(* `sig` tells whether significant_digits=2 was passed.                    *)
(***************************************************************************)
\* A number in thousandths formatted to two decimals (in hundredths).
Round2(n) == (n + 5) \div 10

\* What an item counts as when lists are matched irrespective of order.
RECURSIVE Canon(_, _)
Canon(d, sig) ==
    IF d.t = "n" THEN [t |-> "n", v |-> IF sig THEN Round2(d.v) ELSE d.v]
    ELSE IF IsList(d) THEN [t |-> "l", v |-> { Canon(d.v[i], sig) : i \in 1..Len(d.v) }]
    ELSE IF IsDict(d) THEN [t |-> "m", v |-> [k \in DOMAIN d.v |-> Canon(d.v[k], sig)]]
    ELSE d

\* A set of strings as a sequence, in a fixed order.
RECURSIVE SetToSeq(_)
SetToSeq(X) ==
    IF X = {} THEN <<>>
    ELSE LET x == CHOOSE y \in X : TRUE
         IN  <<x>> \o SetToSeq(X \ {x})

Report(c, p, o, n) == [cat |-> c, path |-> p, old_value |-> o, new_value |-> n]

\* The differences DeepDiff reports between t1 and t2 found at `path`.
RECURSIVE Differences(_, _, _, _)
Differences(t1, t2, sig, path) ==
    IF t1.t # t2.t THEN << Report("type_changes", path, t1, t2) >>
    ELSE IF IsDict(t1) THEN
        LET removed == SetToSeq(DOMAIN t1.v \ DOMAIN t2.v)
            added   == SetToSeq(DOMAIN t2.v \ DOMAIN t1.v)
            common  == SetToSeq(DOMAIN t1.v \cap DOMAIN t2.v)
            Sub[i \in 0..Len(common)] ==
                IF i = 0 THEN <<>>
                ELSE Sub[i - 1] \o Differences(t1.v[common[i]], t2.v[common[i]], sig,
                                               path \o "['" \o common[i] \o "']")
        IN  [ i \in 1..Len(removed) |->
                Report("dictionary_item_removed", path \o "['" \o removed[i] \o "']",
                       t1.v[removed[i]], None) ]
            \o [ i \in 1..Len(added) |->
                Report("dictionary_item_added", path \o "['" \o added[i] \o "']",
                       None, t2.v[added[i]]) ]
            \o Sub[Len(common)]
    ELSE IF IsList(t1) THEN
        LET items1 == { Canon(t1.v[i], sig) : i \in 1..Len(t1.v) }
            items2 == { Canon(t2.v[i], sig) : i \in 1..Len(t2.v) }
            Gone[i \in 0..Len(t1.v)] ==
                IF i = 0 THEN <<>>
                ELSE Gone[i - 1] \o
                     (IF Canon(t1.v[i], sig) \in items2 THEN <<>>
                      ELSE << Report("iterable_item_removed",
                                     path \o "[" \o ToString(i - 1) \o "]", t1.v[i], None) >>)
            New[i \in 0..Len(t2.v)] ==
                IF i = 0 THEN <<>>
                ELSE New[i - 1] \o
                     (IF Canon(t2.v[i], sig) \in items1 THEN <<>>
                      ELSE << Report("iterable_item_added",
                                     path \o "[" \o ToString(i - 1) \o "]", None, t2.v[i]) >>)
        IN  Gone[Len(t1.v)] \o New[Len(t2.v)]
    ELSE IF Canon(t1, sig) = Canon(t2, sig) THEN <<>>
    ELSE << Report("values_changed", path, t1, t2) >>

\* The diff as a dict: category -> its entries (the form .to_json() and
\* json.loads give back).
DeepDiff(t1, t2, sig) ==
    LET all == Differences(t1, t2, sig, "root")
        OfCat(c) == SelectSeq(all, LAMBDA r : r.cat = c)
    IN  [ c \in { all[i].cat : i \in 1..Len(all) } |->
            [ i \in 1..Len(OfCat(c)) |->
                Entry(OfCat(c)[i].path, OfCat(c)[i].old_value, OfCat(c)[i].new_value) ] ]

(***************************************************************************)
(* Configuration                                                           *)
(***************************************************************************)
GLOBAL_POPS ==
    { "quota_max", "quota_remaining", "content_license", "accept_rate", "other_site",
      "azure-ad-role", "azure-object-anchors" }

GLOBAL_IGNORE_DIFF_CONTAINING == {}

(***************************************************************************)
(* validate_order.  The list of mismatches; <<>> stands for None, which is *)
(* what the function returns when the list is empty.                       *)
(***************************************************************************)
\* DeepDiff(t1[key][i], t2[key][i], ignore_order=True), then remove_from_diff
ItemDiff(a, b) == remove_from_diff(DeepDiff(a, b, FALSE), GLOBAL_IGNORE_DIFF_CONTAINING).diff

\* validate_order's loop as it would be if it stopped at the first mismatch
MismatchesOf_first_only(t1, t2, key) ==
    IF key \notin DOMAIN t1.v \/ key \notin DOMAIN t2.v THEN <<>>
    ELSE LET a == t1.v[key].v
             b == t2.v[key].v
             bad == { i \in 1..Len(a) : ~IsEmptyDiff(ItemDiff(a[i], b[i])) }
             first == CHOOSE i \in bad : \A j \in bad : i <= j
         IN  IF Len(a) # Len(b) THEN << "root['" \o key \o "'] : 'length mismatch'" >>
             ELSE IF bad = {} THEN <<>>
             ELSE << "root['" \o key \o "'][" \o ToString(first - 1) \o "] : 'items mismatch'" >>

MismatchesOf(t1, t2, key) ==
    IF key \notin DOMAIN t1.v \/ key \notin DOMAIN t2.v THEN <<>>
    ELSE LET a == t1.v[key].v
             b == t2.v[key].v
             At[i \in 0..Len(a)] ==
                 IF i = 0 THEN <<>>
                 ELSE At[i - 1] \o
                      (IF ~IsEmptyDiff(ItemDiff(a[i], b[i]))
                       THEN << "root['" \o key \o "'][" \o ToString(i - 1) \o "] : 'items mismatch'" >>
                       ELSE <<>>)
         IN  IF Len(a) # Len(b) THEN << "root['" \o key \o "'] : 'length mismatch'" >>
             ELSE At[Len(a)]

RECURSIVE validate_order(_, _, _)
validate_order(t1, t2, comparison_keys) ==
    IF comparison_keys = <<>> THEN <<>>
    ELSE MismatchesOf(t1, t2, Head(comparison_keys))
         \o validate_order(t1, t2, Tail(comparison_keys))

(***************************************************************************)
(* dynamic_pop on every small document and block-list                      *)
(***************************************************************************)
PopDepth == 2
PopLen == 2
PopKeySet == { "key1", "key4" }
PopScalars == { S("value4"), S("value5"), N(1000) }
PopWords == { "key1", "value4" }

RECURSIVE Trees(_)
Trees(depth) ==
    IF depth = 0 THEN PopScalars
    ELSE LET sub == Trees(depth - 1)
         IN  PopScalars
             \cup { L(q) : q \in SeqsUpTo(sub, PopLen) }
             \cup { M(f) : f \in DictsOver(PopKeySet, sub) }

\* dynamic_pop(data, pops)
CallDynamicPop ==
    /\ pop_pc = "call"
    /\ data' = dynamic_pop(data, pops)
    /\ pop_pc' = "returned"
    /\ UNCHANGED pops
    /\ UNCHANGED <<rdVars, cacheVars, runVars, mainVars>>

(***************************************************************************)
(* remove_from_diff on every small change-set and noise list               *)
(***************************************************************************)
MaxChanged == 2
RdPaths == { "root['a']", "root['b']" }
RdValues == { S("mailto:x"), S("/email-protection#1"), S("email-protection#2"), N(1000) }
RdNoise == { "email-protection", "#1" }

RdEntries ==
    { e \in { Entry(p, o, n) : p \in RdPaths, o \in RdValues, n \in RdValues } :
        e.old_value # e.new_value }

\* values_changed is a dict: its keys (the paths) are distinct.
RdChanged ==
    { q \in SeqsUpTo(RdEntries, MaxChanged) :
        \A i, j \in 1..Len(q) : i # j => q[i].path # q[j].path }

RdDiffs ==
    LET added == << Entry("root['c']", None, S("email-protection#3")) >>
    IN  { [c \in {} |-> <<>>] }
        \cup { [c \in {"values_changed"} |-> q] : q \in RdChanged \ {<<>>} }
        \cup { [c \in {"dictionary_item_added"} |-> added] }
        \cup { [c \in {"values_changed", "dictionary_item_added"} |->
                  IF c = "values_changed" THEN q ELSE added] : q \in RdChanged \ {<<>>} }

\* remove_from_diff(diff, pops)
CallRemoveFromDiff ==
    /\ rd_pc = "call"
    /\ LET r == remove_from_diff(rd_diff, rd_pops)
       IN  /\ rd_diff' = r.diff
           /\ rd_pc' = IF r.raised THEN "KeyError" ELSE "returned"
    /\ UNCHANGED <<rd_in, rd_pops>>
    /\ UNCHANGED <<popVars, cacheVars, runVars, mainVars>>

(***************************************************************************)
(* API_Cache.  One origin URL, hence one record file.  A body is the       *)
(* version of the origin's document it holds; 0 is the empty body {}.      *)
(* Time is in ticks; it starts well past every interval, as a Unix         *)
(* timestamp does.                                                         *)
(***************************************************************************)
NumRuns == 2
StartTime == 3
MaxTime == 6
MaxBody == 2
Intervals == { 1, 2 }

Runs == 1..NumRuns

Meta(last, interval) == [last_update |-> last, update_interval |-> interval]

NoFile == [exists |-> FALSE, meta |-> Meta(0, 0), cache |-> 0]
NoObject == [meta |-> Meta(0, 0), cache |-> 0]
NoFetch == [loaded |-> NoFile, asked |-> 0, outcome |-> "none", due |-> FALSE]

\* self.meta and self.cache as __init__ sets them
NewObject(update_interval) == [meta |-> Meta(0, update_interval), cache |-> 0]

\* _save: the whole record is overwritten with the object's meta and cache
SaveRecord(o) == [exists |-> TRUE, meta |-> o.meta, cache |-> o.cache]

\* _load: self.meta and self.cache are replaced by the record's
LoadRecord(f) == [meta |-> f.meta, cache |-> f.cache]

\* (datetime.now().timestamp() - self.meta['last_update']) > self.meta['update_interval']
OutOfDate(o, t) == (t - o.meta.last_update) > o.meta.update_interval

\* What the origin may answer to requests.get, and response.json() of it:
\* a 200 whose body is not JSON makes response.json() raise.
Outcomes == { "ok", "exception", "status", "badjson" }

\* refresh as it would be if a failed request dropped the cached body
refresh_dropping(o, outcome, body, t) ==
    IF outcome = "ok" THEN [meta |-> [o.meta EXCEPT !.last_update = t], cache |-> body]
    ELSE [meta |-> o.meta, cache |-> 0]

\* refresh: the object after the request ended with `outcome`
refresh(o, outcome, body, t) ==
    IF outcome = "ok" THEN [meta |-> [o.meta EXCEPT !.last_update = t], cache |-> body]
    ELSE o

\* API_Cache(url, update_interval), up to the test of os.path.exists
New(p, update_interval) ==
    /\ cpc[p] \in { "idle", "raised" }
    /\ obj' = [obj EXCEPT ![p] = NewObject(update_interval)]
    /\ arg_interval' = [arg_interval EXCEPT ![p] = update_interval]
    /\ fetch_info' = [fetch_info EXCEPT ![p] = NoFetch]
    /\ cpc' = [cpc EXCEPT ![p] = IF file.exists THEN "constructed" ELSE "init_save"]
    /\ UNCHANGED <<now, origin, file, ret, last_good>>
    /\ UNCHANGED <<popVars, rdVars, runVars, mainVars>>

\* the self._save() of __init__
InitSave(p) ==
    /\ cpc[p] = "init_save"
    /\ file' = SaveRecord(obj[p])
    /\ cpc' = [cpc EXCEPT ![p] = "constructed"]
    /\ UNCHANGED <<now, origin, obj, arg_interval, fetch_info, ret, last_good>>
    /\ UNCHANGED <<popVars, rdVars, runVars, mainVars>>

\* fetch: self._load()
Load(p) ==
    /\ cpc[p] = "constructed"
    /\ obj' = [obj EXCEPT ![p] = LoadRecord(file)]
    /\ fetch_info' = [fetch_info EXCEPT ![p].loaded = file]
    /\ cpc' = [cpc EXCEPT ![p] = "loaded"]
    /\ UNCHANGED <<now, origin, file, arg_interval, ret, last_good>>
    /\ UNCHANGED <<popVars, rdVars, runVars, mainVars>>

\* fetch: the test of the age; the cache is recent enough: no refresh
Fresh(p) ==
    /\ cpc[p] = "loaded"
    /\ ~OutOfDate(obj[p], now)
    /\ fetch_info' = [fetch_info EXCEPT
                        ![p].outcome = "fresh",
                        ![p].due = (now - obj[p].meta.last_update) > arg_interval[p]]
    /\ cpc' = [cpc EXCEPT ![p] = "return"]
    /\ UNCHANGED <<now, origin, file, obj, arg_interval, ret, last_good>>
    /\ UNCHANGED <<popVars, rdVars, runVars, mainVars>>

\* fetch: the test of the age, then refresh up to its return or its _save
Request(p, outcome) ==
    /\ cpc[p] = "loaded"
    /\ OutOfDate(obj[p], now)
    /\ obj' = [obj EXCEPT ![p] = refresh(obj[p], outcome, origin, now)]
    /\ fetch_info' = [fetch_info EXCEPT
                        ![p].outcome = outcome,
                        ![p].asked = @ + 1,
                        ![p].due = (now - obj[p].meta.last_update) > arg_interval[p]]
    /\ last_good' = IF outcome = "ok" THEN origin ELSE last_good
    /\ cpc' = [cpc EXCEPT ![p] = CASE outcome = "ok" -> "save"
                                   [] outcome = "badjson" -> "raised"
                                   [] OTHER -> "return"]
    /\ UNCHANGED <<now, origin, file, arg_interval, ret>>
    /\ UNCHANGED <<popVars, rdVars, runVars, mainVars>>

\* refresh: self._save()
Save(p) ==
    /\ cpc[p] = "save"
    /\ file' = SaveRecord(obj[p])
    /\ cpc' = [cpc EXCEPT ![p] = "return"]
    /\ UNCHANGED <<now, origin, obj, arg_interval, fetch_info, ret, last_good>>
    /\ UNCHANGED <<popVars, rdVars, runVars, mainVars>>

\* fetch: return self.cache
Return(p) ==
    /\ cpc[p] = "return"
    /\ ret' = [ret EXCEPT ![p] = obj[p].cache]
    /\ cpc' = [cpc EXCEPT ![p] = "idle"]
    /\ UNCHANGED <<now, origin, file, obj, arg_interval, fetch_info, last_good>>
    /\ UNCHANGED <<popVars, rdVars, runVars, mainVars>>

\* time passes
Tick ==
    /\ now < MaxTime
    /\ now' = now + 1
    /\ UNCHANGED <<origin, file, obj, cpc, arg_interval, fetch_info, ret, last_good>>
    /\ UNCHANGED <<popVars, rdVars, runVars, mainVars>>

\* the origin's document changes
OriginChanges ==
    /\ origin < MaxBody
    /\ origin' = origin + 1
    /\ UNCHANGED <<now, file, obj, cpc, arg_interval, fetch_info, ret, last_good>>
    /\ UNCHANGED <<popVars, rdVars, runVars, mainVars>>

(***************************************************************************)
(* run_test and the loop of main over the test cases.                      *)
(* The documents are small Stack Exchange answers: a dict with the list    *)
(* 'items' and, possibly, the key 'quota_max'.                             *)
(***************************************************************************)
NumCases == 2
MaxItems == 2

Cases == 1..NumCases

RunItems ==
    { M([score |-> N(1001)]), M([score |-> N(1004)]),
      M([tags |-> L(<<S("python"), S("flask")>>)]),
      M([tags |-> L(<<S("flask"), S("python")>>)]),
      M([tags |-> L(<<S("azure-ad-role")>>)]) }

RunDocs ==
    { M([items |-> L(q)]) : q \in SeqsUpTo(RunItems, MaxItems) }
    \cup { M([items |-> L(q), quota_max |-> N(300000)]) : q \in SeqsUpTo(RunItems, MaxItems) }

\* What cached_api.fetch() may return: a body of the origin, or the empty
\* body when no refresh has succeeded yet.
CachedBodies == RunDocs \cup { M(EmptyDict) }

\* The scraper's answers: a status and a body that is JSON (valid) or not.
HttpResponse(st, ok, b) == [status_code |-> st, valid |-> ok, body |-> b]
NoResponse == HttpResponse(0, FALSE, None)
ErrorBody == M([error |-> S("not found")])
Responses ==
    { HttpResponse(200, TRUE, d) : d \in RunDocs }
    \cup { HttpResponse(200, FALSE, None), HttpResponse(500, TRUE, ErrorBody),
           HttpResponse(500, FALSE, None) }

\* The few documents of the specification of the loop of main.
LoopBodies ==
    { M([items |-> L(<<M([score |-> N(1001)]), M([tags |-> L(<<S("python"), S("flask")>>)])>>),
         quota_max |-> N(300000)]) }

LoopResponses ==
    { HttpResponse(200, TRUE, M([items |-> L(q)])) :
        q \in { <<M([score |-> N(1001)]), M([tags |-> L(<<S("python"), S("flask")>>)])>>,
                <<M([tags |-> L(<<S("python"), S("flask")>>)]), M([score |-> N(1001)])>>,
                <<M([score |-> N(1001)])>> } }
    \cup { HttpResponse(200, FALSE, None), HttpResponse(500, TRUE, ErrorBody),
           HttpResponse(500, FALSE, None) }

\* args['<test_id>'] and str(idx+1) not in args['<test_id>']
Skipped(k) == selected # {} /\ k \notin selected

\* pass_fail = "[PASS]" if diff == {} else "[FAIL]"
pass_fail(d) == IF IsEmptyDiff(d) THEN "[PASS]" ELSE "[FAIL]"

\* the gate as it would be if the order check were made on every diff
OrderGate_always(d) == TRUE

\* if diff == {}: the order check is made
OrderGate(d) == IsEmptyDiff(d)

\* diff['order_changed'] = mismatches
WithOrderChanged(d, ms) ==
    [ c \in DOMAIN d \cup {"order_changed"} |-> IF c = "order_changed" THEN ms ELSE d[c] ]

Locals == <<cached_response, response, scraper_response, diff, mismatches>>

\* run_test returns: its locals are gone
Returned ==
    /\ cached_response' = None /\ response' = NoResponse /\ scraper_response' = None
    /\ diff' = EmptyDiff /\ mismatches' = <<>>

\* the loop of main: a case that is not selected is passed over
SkipCase ==
    /\ rpc = "loop" /\ idx < n_tests
    /\ Skipped(idx + 1)
    /\ idx' = idx + 1
    /\ UNCHANGED <<n_tests, selected, rpc, Locals, trace, artifacts, sut_failed>>
    /\ UNCHANGED <<popVars, rdVars, cacheVars, mainVars>>

\* the loop of main: run_test(idx+1, test)
CallRunTest ==
    /\ rpc = "loop" /\ idx < n_tests
    /\ ~Skipped(idx + 1)
    /\ idx' = idx + 1
    /\ rpc' = "start"
    /\ trace' = <<>>
    /\ UNCHANGED <<n_tests, selected, Locals, artifacts, sut_failed>>
    /\ UNCHANGED <<popVars, rdVars, cacheVars, mainVars>>

\* cached_api = API_Cache(...); cached_response = cached_api.fetch()
GetCached(bodies) ==
    /\ rpc = "start"
    /\ cached_response' \in bodies
    /\ rpc' = "cached"
    /\ trace' = Append(trace, "fetch")
    /\ UNCHANGED <<n_tests, selected, idx, response, scraper_response, diff, mismatches,
                   artifacts, sut_failed>>
    /\ UNCHANGED <<popVars, rdVars, cacheVars, mainVars>>

\* response = requests.get(scraper): the scraper answers
GetScraper(answers) ==
    /\ rpc = "cached"
    /\ response' \in answers
    /\ rpc' = "responded"
    /\ trace' = Append(trace, "scraper")
    /\ UNCHANGED <<n_tests, selected, idx, cached_response, scraper_response, diff, mismatches,
                   artifacts, sut_failed>>
    /\ UNCHANGED <<popVars, rdVars, cacheVars, mainVars>>

\* response = requests.get(scraper): the connection is refused; the
\* ConnectionError is caught neither by run_test nor by main
ScraperRefused ==
    /\ rpc = "cached"
    /\ rpc' = "crashed"
    /\ sut_failed' = sut_failed \cup {idx}
    /\ UNCHANGED <<n_tests, selected, idx, Locals, trace, artifacts>>
    /\ UNCHANGED <<popVars, rdVars, cacheVars, mainVars>>

\* if response.status_code != 200: the [ERROR] file is written from
\* response.json(), which raises on a body that is not JSON
BadStatus ==
    /\ rpc = "responded"
    /\ response.status_code # 200
    /\ sut_failed' = sut_failed \cup {idx}
    /\ IF response.valid
       THEN /\ artifacts' = [artifacts EXCEPT ![idx] = Append(@, "[ERROR]")]
            /\ rpc' = "loop"
            /\ Returned
       ELSE /\ rpc' = "crashed"
            /\ UNCHANGED <<artifacts, Locals>>
    /\ UNCHANGED <<n_tests, selected, idx, trace>>
    /\ UNCHANGED <<popVars, rdVars, cacheVars, mainVars>>

\* scraper_response = response.json()
Parse ==
    /\ rpc = "responded"
    /\ response.status_code = 200
    /\ IF response.valid
       THEN /\ scraper_response' = response.body
            /\ rpc' = "parsed"
            /\ UNCHANGED sut_failed
       ELSE /\ rpc' = "crashed"
            /\ sut_failed' = sut_failed \cup {idx}
            /\ UNCHANGED scraper_response
    /\ UNCHANGED <<n_tests, selected, idx, cached_response, response, diff, mismatches, trace,
                   artifacts>>
    /\ UNCHANGED <<popVars, rdVars, cacheVars, mainVars>>

\* dynamic_pop(cached_response, GLOBAL_POPS); dynamic_pop(scraper_response, GLOBAL_POPS)
Pop ==
    /\ rpc = "parsed"
    /\ cached_response' = dynamic_pop(cached_response, GLOBAL_POPS)
    /\ scraper_response' = dynamic_pop(scraper_response, GLOBAL_POPS)
    /\ rpc' = "popped"
    /\ trace' = Append(trace, "pop")
    /\ UNCHANGED <<n_tests, selected, idx, response, diff, mismatches, artifacts, sut_failed>>
    /\ UNCHANGED <<popVars, rdVars, cacheVars, mainVars>>

\* diff = DeepDiff(cached_response, scraper_response, ignore_order=True,
\*                 significant_digits=2, truncate_datetime='minute')
Diff ==
    /\ rpc = "popped"
    /\ diff' = DeepDiff(cached_response, scraper_response, TRUE)
    /\ rpc' = "diffed"
    /\ trace' = Append(trace, "diff")
    /\ UNCHANGED <<n_tests, selected, idx, cached_response, response, scraper_response, mismatches,
                   artifacts, sut_failed>>
    /\ UNCHANGED <<popVars, rdVars, cacheVars, mainVars>>

\* remove_from_diff(diff, GLOBAL_IGNORE_DIFF_CONTAINING)
Suppress ==
    /\ rpc = "diffed"
    /\ LET r == remove_from_diff(diff, GLOBAL_IGNORE_DIFF_CONTAINING)
       IN  /\ diff' = r.diff
           /\ rpc' = IF r.raised THEN "crashed" ELSE "suppressed"
    /\ trace' = Append(trace, "suppress")
    /\ UNCHANGED <<n_tests, selected, idx, cached_response, response, scraper_response, mismatches,
                   artifacts, sut_failed>>
    /\ UNCHANGED <<popVars, rdVars, cacheVars, mainVars>>

\* if diff == {}: mismatches = validate_order(...); if mismatches is not None:
\*     diff['order_changed'] = mismatches
CheckOrder ==
    /\ rpc = "suppressed"
    /\ OrderGate(diff)
    /\ LET ms == validate_order(cached_response, scraper_response, <<"items">>)
       IN  /\ mismatches' = ms
           /\ diff' = IF ms # <<>> THEN WithOrderChanged(diff, ms) ELSE diff
    /\ rpc' = "checked"
    /\ trace' = Append(trace, "order")
    /\ UNCHANGED <<n_tests, selected, idx, cached_response, response, scraper_response,
                   artifacts, sut_failed>>
    /\ UNCHANGED <<popVars, rdVars, cacheVars, mainVars>>

\* diff != {}: the order check is not made
NoOrderCheck ==
    /\ rpc = "suppressed"
    /\ ~OrderGate(diff)
    /\ rpc' = "checked"
    /\ UNCHANGED <<n_tests, selected, idx, Locals, trace, artifacts, sut_failed>>
    /\ UNCHANGED <<popVars, rdVars, cacheVars, mainVars>>

\* the result file is written under pass_fail; run_test returns
WriteResult ==
    /\ rpc = "checked"
    /\ artifacts' = [artifacts EXCEPT ![idx] = Append(@, pass_fail(diff))]
    /\ rpc' = "written"
    /\ trace' = Append(trace, "write")
    /\ UNCHANGED <<n_tests, selected, idx, Locals, sut_failed>>
    /\ UNCHANGED <<popVars, rdVars, cacheVars, mainVars>>

\* run_test returns to the loop of main
ReturnToLoop ==
    /\ rpc = "written"
    /\ rpc' = "loop"
    /\ Returned
    /\ UNCHANGED <<n_tests, selected, idx, trace, artifacts, sut_failed>>
    /\ UNCHANGED <<popVars, rdVars, cacheVars, mainVars>>

(***************************************************************************)
(* main: the wait for the scraper service.  The loop `while True` holds no *)
(* break: it is left only by the return under `retries > 10`, so the code  *)
(* after it (the test cases, the loop over them) is not reached from here. *)
(***************************************************************************)
RetryLimit == 10
ProbeAnswers == { "404", "200" }

\* if retries > 10: logger.error("Failed to start the service"); return
GiveUp ==
    /\ mpc = "poll"
    /\ retries > RetryLimit
    /\ mpc' = "returned"
    /\ UNCHANGED <<retries, probe, answered>>
    /\ UNCHANGED <<popVars, rdVars, cacheVars, runVars>>

\* retries += 1; requests.get raises: sleep(0.5), and the loop goes on
ProbeRefused ==
    /\ mpc = "poll"
    /\ ~(retries > RetryLimit)
    /\ retries' = retries + 1
    /\ probe' = "refused"
    /\ UNCHANGED <<answered, mpc>>
    /\ UNCHANGED <<popVars, rdVars, cacheVars, runVars>>

\* retries += 1; requests.get returns a response: the loop goes on
ProbeAnswered ==
    /\ mpc = "poll"
    /\ ~(retries > RetryLimit)
    /\ retries' = retries + 1
    /\ probe' \in ProbeAnswers
    /\ answered' = answered + 1
    /\ UNCHANGED mpc
    /\ UNCHANGED <<popVars, rdVars, cacheVars, runVars>>

(***************************************************************************)
(* Specifications.  Each one starts the part of the state it is about and  *)
(* leaves the other parts as they are.                                     *)
(***************************************************************************)
\* dynamic_pop alone: every small document, every small block-list
PopInit ==
    /\ data \in { d \in Trees(PopDepth) : IsDict(d) \/ IsList(d) }
    /\ pops \in SUBSET PopWords
    /\ pop_pc = "call"
    /\ rd_diff = EmptyDiff /\ rd_in = EmptyDiff /\ rd_pops = {} /\ rd_pc = "off"
    /\ now = StartTime /\ origin = 1 /\ file = NoFile
    /\ obj = [p \in Runs |-> NoObject]
    /\ cpc = [p \in Runs |-> "idle"]
    /\ arg_interval = [p \in Runs |-> 0]
    /\ fetch_info = [p \in Runs |-> NoFetch]
    /\ ret = [p \in Runs |-> 0]
    /\ last_good = 0
    /\ n_tests = 0 /\ selected = {} /\ idx = 0 /\ rpc = "off"
    /\ cached_response = None /\ response = NoResponse /\ scraper_response = None
    /\ diff = EmptyDiff /\ mismatches = <<>> /\ trace = <<>>
    /\ artifacts = [k \in Cases |-> <<>>]
    /\ sut_failed = {}
    /\ retries = 0 /\ probe = "none" /\ answered = 0 /\ mpc = "off"

PopNext == CallDynamicPop

SpecPop == PopInit /\ [][PopNext]_vars

\* remove_from_diff alone: every small change-set, every small noise list
RdInit ==
    /\ data = None /\ pops = {} /\ pop_pc = "off"
    /\ rd_diff \in RdDiffs
    /\ rd_in = rd_diff
    /\ rd_pops \in SUBSET RdNoise
    /\ rd_pc = "call"
    /\ now = StartTime /\ origin = 1 /\ file = NoFile
    /\ obj = [p \in Runs |-> NoObject]
    /\ cpc = [p \in Runs |-> "idle"]
    /\ arg_interval = [p \in Runs |-> 0]
    /\ fetch_info = [p \in Runs |-> NoFetch]
    /\ ret = [p \in Runs |-> 0]
    /\ last_good = 0
    /\ n_tests = 0 /\ selected = {} /\ idx = 0 /\ rpc = "off"
    /\ cached_response = None /\ response = NoResponse /\ scraper_response = None
    /\ diff = EmptyDiff /\ mismatches = <<>> /\ trace = <<>>
    /\ artifacts = [k \in Cases |-> <<>>]
    /\ sut_failed = {}
    /\ retries = 0 /\ probe = "none" /\ answered = 0 /\ mpc = "off"

RdNext == CallRemoveFromDiff

SpecDiff == RdInit /\ [][RdNext]_vars

\* No record file yet, no API_Cache object yet.
CacheInit ==
    /\ data = None /\ pops = {} /\ pop_pc = "off"
    /\ rd_diff = EmptyDiff /\ rd_in = EmptyDiff /\ rd_pops = {} /\ rd_pc = "off"
    /\ now = StartTime /\ origin = 1 /\ file = NoFile
    /\ obj = [p \in Runs |-> NoObject]
    /\ cpc = [p \in Runs |-> "idle"]
    /\ arg_interval = [p \in Runs |-> 0]
    /\ fetch_info = [p \in Runs |-> NoFetch]
    /\ ret = [p \in Runs |-> 0]
    /\ last_good = 0
    /\ n_tests = 0 /\ selected = {} /\ idx = 0 /\ rpc = "off"
    /\ cached_response = None /\ response = NoResponse /\ scraper_response = None
    /\ diff = EmptyDiff /\ mismatches = <<>> /\ trace = <<>>
    /\ artifacts = [k \in Cases |-> <<>>]
    /\ sut_failed = {}
    /\ retries = 0 /\ probe = "none" /\ answered = 0 /\ mpc = "off"

\* One run at a time uses the record.
CacheNext ==
    \/ \E update_interval \in Intervals : New(1, update_interval)
    \/ InitSave(1)
    \/ Load(1)
    \/ Fresh(1)
    \/ \E outcome \in Outcomes : Request(1, outcome)
    \/ Save(1)
    \/ Return(1)
    \/ Tick
    \/ OriginChanges

SpecCache == CacheInit /\ [][CacheNext]_vars

\* Two runs use the record concurrently; the code takes no lock.
ConcNext ==
    \/ \E p \in Runs, update_interval \in Intervals : New(p, update_interval)
    \/ \E p \in Runs : InitSave(p)
    \/ \E p \in Runs : Load(p)
    \/ \E p \in Runs : Fresh(p)
    \/ \E p \in Runs, outcome \in Outcomes : Request(p, outcome)
    \/ \E p \in Runs : Save(p)
    \/ \E p \in Runs : Return(p)
    \/ Tick
    \/ OriginChanges

SpecConc == CacheInit /\ [][ConcNext]_vars

\* One call of run_test (a single test case, selected), on every pair of
\* small documents.
RunInit ==
    /\ data = None /\ pops = {} /\ pop_pc = "off"
    /\ rd_diff = EmptyDiff /\ rd_in = EmptyDiff /\ rd_pops = {} /\ rd_pc = "off"
    /\ now = StartTime /\ origin = 1 /\ file = NoFile
    /\ obj = [p \in Runs |-> NoObject]
    /\ cpc = [p \in Runs |-> "idle"]
    /\ arg_interval = [p \in Runs |-> 0]
    /\ fetch_info = [p \in Runs |-> NoFetch]
    /\ ret = [p \in Runs |-> 0]
    /\ last_good = 0
    /\ n_tests = 1 /\ selected = {} /\ idx = 0 /\ rpc = "loop"
    /\ cached_response = None /\ response = NoResponse /\ scraper_response = None
    /\ diff = EmptyDiff /\ mismatches = <<>> /\ trace = <<>>
    /\ artifacts = [k \in Cases |-> <<>>]
    /\ sut_failed = {}
    /\ retries = 0 /\ probe = "none" /\ answered = 0 /\ mpc = "off"

RunNext ==
    \/ CallRunTest \/ GetCached(CachedBodies) \/ GetScraper(Responses) \/ ScraperRefused
    \/ BadStatus \/ Parse \/ Pop \/ Diff \/ Suppress \/ CheckOrder \/ NoOrderCheck
    \/ WriteResult \/ ReturnToLoop

SpecRun == RunInit /\ [][RunNext]_vars

\* main at `for idx, test in enumerate(test_cases)`, for every selection of
\* the test cases, on a few documents.
LoopInit ==
    /\ data = None /\ pops = {} /\ pop_pc = "off"
    /\ rd_diff = EmptyDiff /\ rd_in = EmptyDiff /\ rd_pops = {} /\ rd_pc = "off"
    /\ now = StartTime /\ origin = 1 /\ file = NoFile
    /\ obj = [p \in Runs |-> NoObject]
    /\ cpc = [p \in Runs |-> "idle"]
    /\ arg_interval = [p \in Runs |-> 0]
    /\ fetch_info = [p \in Runs |-> NoFetch]
    /\ ret = [p \in Runs |-> 0]
    /\ last_good = 0
    /\ n_tests = NumCases /\ selected \in SUBSET Cases /\ idx = 0 /\ rpc = "loop"
    /\ cached_response = None /\ response = NoResponse /\ scraper_response = None
    /\ diff = EmptyDiff /\ mismatches = <<>> /\ trace = <<>>
    /\ artifacts = [k \in Cases |-> <<>>]
    /\ sut_failed = {}
    /\ retries = 0 /\ probe = "none" /\ answered = 0 /\ mpc = "off"

LoopNext ==
    \/ SkipCase \/ CallRunTest \/ GetCached(LoopBodies) \/ GetScraper(LoopResponses)
    \/ ScraperRefused \/ BadStatus \/ Parse \/ Pop \/ Diff \/ Suppress \/ CheckOrder
    \/ NoOrderCheck \/ WriteResult \/ ReturnToLoop

SpecLoop == LoopInit /\ [][LoopNext]_vars

\* main at `while True`
MainInit ==
    /\ data = None /\ pops = {} /\ pop_pc = "off"
    /\ rd_diff = EmptyDiff /\ rd_in = EmptyDiff /\ rd_pops = {} /\ rd_pc = "off"
    /\ now = StartTime /\ origin = 1 /\ file = NoFile
    /\ obj = [p \in Runs |-> NoObject]
    /\ cpc = [p \in Runs |-> "idle"]
    /\ arg_interval = [p \in Runs |-> 0]
    /\ fetch_info = [p \in Runs |-> NoFetch]
    /\ ret = [p \in Runs |-> 0]
    /\ last_good = 0
    /\ n_tests = 0 /\ selected = {} /\ idx = 0 /\ rpc = "off"
    /\ cached_response = None /\ response = NoResponse /\ scraper_response = None
    /\ diff = EmptyDiff /\ mismatches = <<>> /\ trace = <<>>
    /\ artifacts = [k \in Cases |-> <<>>]
    /\ sut_failed = {}
    /\ retries = 0 /\ probe = "none" /\ answered = 0 /\ mpc = "poll"

MainNext == GiveUp \/ ProbeRefused \/ ProbeAnswered

SpecMain == MainInit /\ [][MainNext]_vars

(***************************************************************************)
(* Properties                                                              *)
(***************************************************************************)
\* A tree free of the block-list: no dict key in it, no string in it that
\* is an item of a list or the value of a dict entry.
RECURSIVE FreeOf(_, _)
FreeOf(d, ps) ==
    IF IsDict(d) THEN
        \A k \in DOMAIN d.v : k \notin ps /\ ~InPops(d.v[k], ps) /\ FreeOf(d.v[k], ps)
    ELSE IF IsList(d) THEN
        \A i \in 1..Len(d.v) : ~InPops(d.v[i], ps) /\ FreeOf(d.v[i], ps)
    ELSE TRUE

\* C1: after dynamic_pop(D, B) the tree holds, at any depth, no dict key of
\* B and no scalar of B, be it an item of a list or the value of a dict entry.
C1_NoiseFilterComplete == pop_pc = "returned" => FreeOf(data, pops)

\* An entry of values_changed whose old or new value holds a noise substring.
NoisyEntry(e, ps) == Noisy(e.old_value, ps) \/ Noisy(e.new_value, ps)

ChangedOf(d) == IF "values_changed" \in DOMAIN d THEN d["values_changed"] ELSE <<>>

\* C2: remove_from_diff(diff, pops) completes normally; afterwards
\* values_changed holds no entry whose old or new value contains a member of
\* pops (also when both do), and every entry with no match on either side is kept.
C2_NoiseSuppressed ==
    rd_pc # "call" =>
        /\ rd_pc = "returned"
        /\ \A e \in Range(ChangedOf(rd_diff)) : ~NoisyEntry(e, rd_pops)
        /\ \A e \in Range(ChangedOf(rd_in)) :
               ~NoisyEntry(e, rd_pops) => e \in Range(ChangedOf(rd_diff))

\* The refresh attempts that fail: a request exception, a status that is not 200.
FailedRefresh == { "exception", "status" }

\* C4: a fetch whose refresh attempt fails raises nothing, returns the body
\* stored by the most recent successful refresh (the empty body if there was
\* none), and leaves the in-memory body and meta.last_update as _load read
\* them and the record file as it was.
C4_StaleCacheResilience ==
    \A p \in Runs :
        fetch_info[p].outcome \in FailedRefresh =>
            /\ cpc[p] \in { "return", "idle" }
            /\ obj[p].cache = fetch_info[p].loaded.cache
            /\ obj[p].meta.last_update = fetch_info[p].loaded.meta.last_update
            /\ file = fetch_info[p].loaded
            /\ obj[p].cache = last_good
            /\ (cpc[p] = "idle" => ret[p] = last_good)

\* A fetch returned the body of an earlier refresh after its own refresh
\* attempt failed, while the origin serves a newer one.
C4_Witness ==
    /\ fetch_info[1].outcome \in FailedRefresh
    /\ cpc[1] = "idle"
    /\ ret[1] = 1 /\ last_good = 1 /\ origin = 2
    /\ file.meta.last_update < now

\* C6: once a run has persisted a successful refresh, the persisted record
\* never afterwards holds a smaller last_update or an older or empty body,
\* in every interleaving of two runs on the same record.
C6_NoLostRefresh ==
    [][ (file.exists /\ file.meta.last_update > 0) =>
            /\ file'.meta.last_update >= file.meta.last_update
            /\ file'.cache >= file.cache ]_vars

\* C7: the origin is requested exactly once during a fetch if
\* now - last_refreshed > r, and not at all otherwise, r being the interval
\* given to this API_Cache, whatever interval the record was persisted under.
C7_FreshnessPolicy ==
    \A p \in Runs :
        fetch_info[p].outcome # "none" =>
            fetch_info[p].asked = (IF fetch_info[p].due THEN 1 ELSE 0)

\* The documents run_test compares hold the list 'items'.
HasItems(d) == IsDict(d) /\ "items" \in DOMAIN d.v /\ IsList(d.v["items"])

ItemsOf(d) == d.v["items"].v

Count(q, x) == Cardinality({ i \in 1..Len(q) : q[i] = x })

SameMultiset(q1, q2) ==
    /\ Len(q1) = Len(q2)
    /\ \A x \in Range(q1) \cup Range(q2) : Count(q1, x) = Count(q2, x)

\* The same elements under 'items', in a different order.
Reordered ==
    /\ HasItems(cached_response) /\ HasItems(scraper_response)
    /\ SameMultiset(ItemsOf(cached_response), ItemsOf(scraper_response))
    /\ ItemsOf(cached_response) # ItemsOf(scraper_response)

\* The 'items mismatch' descriptors of the indices (from 1) in `bad`, in order.
Descriptors(n, bad) ==
    LET At[i \in 0..n] ==
            IF i = 0 THEN <<>>
            ELSE At[i - 1] \o (IF i \in bad
                               THEN << "root['items'][" \o ToString(i - 1) \o "] : 'items mismatch'" >>
                               ELSE <<>>)
    IN  At[n]

\* Equal but for the order and the repetitions of the items of lists.
RECURSIVE SameUpToOrder(_, _)
SameUpToOrder(a, b) ==
    IF a.t # b.t THEN FALSE
    ELSE IF IsDict(a) THEN
        /\ DOMAIN a.v = DOMAIN b.v
        /\ \A k \in DOMAIN a.v : SameUpToOrder(a.v[k], b.v[k])
    ELSE IF IsList(a) THEN
        /\ \A i \in 1..Len(a.v) : \E j \in 1..Len(b.v) : SameUpToOrder(a.v[i], b.v[j])
        /\ \A j \in 1..Len(b.v) : \E i \in 1..Len(a.v) : SameUpToOrder(a.v[i], b.v[j])
    ELSE a = b

OrderChecked == "order" \in Range(trace)

OnlyOrderChanged(d, ms) == DOMAIN d = {"order_changed"} /\ d["order_changed"] = ms

\* C3 as stated: with the same elements under 'items' in a different order,
\* the structural diff is empty, validate_order reports an 'items mismatch'
\* for exactly the indices i where reference[i] and candidate[i] are not
\* equal, run_test attaches the list as 'order_changed' and the verdict is FAIL.
C3_AsStated ==
    (rpc = "written" /\ Reordered) =>
        LET a == ItemsOf(cached_response)
            b == ItemsOf(scraper_response)
        IN  /\ OrderChecked
            /\ mismatches = Descriptors(Len(a), { i \in 1..Len(a) : a[i] # b[i] })
            /\ OnlyOrderChanged(diff, mismatches)
            /\ artifacts[idx] = << "[FAIL]" >>

\* C3, amended: with the same elements under 'items' in a different order,
\* the structural diff is empty and validate_order reports an 'items
\* mismatch' for exactly the indices i where reference[i] and candidate[i]
\* differ by more than the order and repetition of the items of their nested
\* lists; if there is such an index run_test attaches the list as
\* 'order_changed' and the verdict is FAIL, otherwise the verdict is PASS.
C3_OrderSensitivity ==
    (rpc = "written" /\ Reordered) =>
        LET a == ItemsOf(cached_response)
            b == ItemsOf(scraper_response)
        IN  /\ OrderChecked
            /\ mismatches = Descriptors(Len(a), { i \in 1..Len(a) : ~SameUpToOrder(a[i], b[i]) })
            /\ IF mismatches # <<>>
               THEN OnlyOrderChanged(diff, mismatches) /\ artifacts[idx] = << "[FAIL]" >>
               ELSE IsEmptyDiff(diff) /\ artifacts[idx] = << "[PASS]" >>

\* Reordered items failed a test whose structural diff was empty.
C3_Witness ==
    /\ rpc = "written" /\ Reordered
    /\ Len(mismatches) = 2
    /\ artifacts[idx] = << "[FAIL]" >>

\* What dynamic_pop removes with GLOBAL_POPS: keys, and strings in lists.
RECURSIVE Filtered(_)
Filtered(d) ==
    IF IsDict(d) THEN \A k \in DOMAIN d.v : k \notin GLOBAL_POPS /\ Filtered(d.v[k])
    ELSE IF IsList(d) THEN
        \A i \in 1..Len(d.v) : ~InPops(d.v[i], GLOBAL_POPS) /\ Filtered(d.v[i])
    ELSE TRUE

\* trace without the optional order check
Mandatory(q) == SelectSeq(q, LAMBDA st : st # "order")

IsPrefix(q, r) == Len(q) <= Len(r) /\ SubSeq(r, 1, Len(q)) = q

Compared == rpc \in { "diffed", "suppressed", "checked", "written" }

\* C8: in a run_test that reaches the comparison the noise filter is applied
\* to both documents before the structural diff, remove_from_diff runs on the
\* diff before the emptiness check, validate_order is invoked only if the
\* post-processed diff is empty, and the result file is written once, as PASS
\* exactly when the final diff (with any 'order_changed') is empty, else FAIL.
C8_PipelineOrder ==
    /\ IsPrefix(Mandatory(trace), << "fetch", "scraper", "pop", "diff", "suppress", "write" >>)
    /\ OrderChecked => IsPrefix(<< "fetch", "scraper", "pop", "diff", "suppress", "order" >>, trace)
    /\ Compared => Filtered(cached_response) /\ Filtered(scraper_response)
    /\ rpc \in { "checked", "written" } =>
           (OrderChecked <=> DOMAIN diff \subseteq {"order_changed"})
    /\ rpc \in { "start", "cached", "responded", "parsed", "popped", "diffed",
                 "suppressed", "checked" } => artifacts[idx] = <<>>
    /\ rpc = "written" =>
           artifacts[idx] = << IF IsEmptyDiff(diff) THEN "[PASS]" ELSE "[FAIL]" >>
    /\ (rpc = "loop" /\ idx > 0 /\ idx \notin sut_failed) =>
           (artifacts[idx] = << "[PASS]" >> \/ artifacts[idx] = << "[FAIL]" >>)

\* A test passed after all seven stages, the order check included, on
\* documents with a non-empty 'items' list.
C8_Witness ==
    /\ rpc = "written"
    /\ trace = << "fetch", "scraper", "pop", "diff", "suppress", "order", "write" >>
    /\ artifacts[idx] = << "[PASS]" >>
    /\ ItemsOf(cached_response) # <<>>

\* Equal under the tolerances of the outer diff: numbers to two decimals,
\* lists irrespective of order.
RECURSIVE TolEqual(_, _)
TolEqual(a, b) ==
    IF a.t # b.t THEN FALSE
    ELSE IF a.t = "n" THEN Round2(a.v) = Round2(b.v)
    ELSE IF IsDict(a) THEN
        /\ DOMAIN a.v = DOMAIN b.v
        /\ \A k \in DOMAIN a.v : TolEqual(a.v[k], b.v[k])
    ELSE IF IsList(a) THEN
        /\ \A i \in 1..Len(a.v) : \E j \in 1..Len(b.v) : TolEqual(a.v[i], b.v[j])
        /\ \A j \in 1..Len(b.v) : \E i \in 1..Len(a.v) : TolEqual(a.v[i], b.v[j])
    ELSE a = b

\* C9: validate_order compares the elements at the same index under the
\* tolerances of the outer diff, so when the 'items' are pairwise
\* tolerance-equal index by index it reports no mismatch.
C9_OrderTolerances ==
    ( /\ rpc \in { "checked", "written" } /\ OrderChecked
      /\ HasItems(cached_response) /\ HasItems(scraper_response)
      /\ Len(ItemsOf(cached_response)) = Len(ItemsOf(scraper_response))
      /\ \A i \in 1..Len(ItemsOf(cached_response)) :
             TolEqual(ItemsOf(cached_response)[i], ItemsOf(scraper_response)[i]) )
    => mismatches = <<>>

\* C5: a failure of the system under test on case k (a status that is not
\* 200, a body that is not JSON, a refused connection) leaves an ERROR file
\* for case k and never aborts the run: the later cases are still run.
C5_ErrorIsolation ==
    /\ rpc # "crashed"
    /\ \A k \in sut_failed : (k < idx \/ rpc = "loop") => artifacts[k] = << "[ERROR]" >>

\* C10: main probes at most 11 times; when a probe is answered it stops
\* polling and goes on to the test cases; it returns without running a test
\* only when every probe raised a connection error.
C10_ReadinessWait ==
    /\ retries <= RetryLimit + 1
    /\ mpc = "returned" => answered = 0

====
